---- MODULE Spec2Model ----
(***************************************************************************)
(* s01_recon2D.py: the 2D TVR-DART example script, as a state machine.     *)
(* One action per stage of the script; the calls into numpy, astra, SIRT,  *)
(* TVRDART and pylab are opaque: their results are chosen from small sets  *)
(* and each of them may raise, which ends the run (nothing is caught).     *)
(*                                                                         *)
(* Array values are exact rationals n/d (d > 0), extended with the IEEE    *)
(* values numpy produces on a division by zero: 1/0 = +inf, -1/0 = -inf,   *)
(* 0/0 = nan. Rounding of float arithmetic is not modelled.                *)
(* Angles in radians are rational multiples of pi: the number q stands for *)
(* q * pi.                                                                 *)
(***************************************************************************)
EXTENDS Integers, Sequences, FiniteSets, TLC

VARIABLES
    argv,        \* sys.argv[1:] of the run (never read by the script)
    env,         \* os.environ of the run
    pc,          \* the stage about to run, or "done" / "failed"
    trace,       \* the stages that have returned, in order
    failedAt,    \* the stage that raised, "" if none
    path,        \* the path handed to np.load
    loaded,      \* the array as np.load returned it
    data,        \* the name `data`
    Nan, Ndetx,  \* data.shape
    angles,      \* the name `angles`
    proj_geom, vol_geom,
    projectors,  \* astra projector ids that are live
    created,     \* number of astra.create_projector calls made
    W,           \* astra.OpTomo(proj_id)
    K,
    sirt_call,   \* the arguments SIRT.recon was called with
    sirt_raw,    \* the image SIRT.recon returned
    recsirt, sf, p,
    gv, param0, param_esti,
    Segrec, rec,
    joint_call,  \* the arguments and results of TVRDART.joint
    recon_call,  \* the arguments and results of TVRDART.recon
    shown,       \* the images on screen after pylab.show
    writes,      \* number of np.save calls that wrote a complete file
    file         \* TVRDART2Dreconstruction.npy: state and content

vars == <<argv, env, pc, trace, failedAt, path, loaded, data, Nan, Ndetx, angles,
          proj_geom, vol_geom, projectors, created, W, K, sirt_call, sirt_raw,
          recsirt, sf, p, gv, param0, param_esti, Segrec, rec, joint_call,
          recon_call, shown, writes, file>>

---------------------------------------------------------------------------
(* Bounds of the model                                                     *)

MaxNan == 3
MaxNdetx == 2

---------------------------------------------------------------------------
(* Numbers                                                                 *)

Abs(x) == IF x < 0 THEN -x ELSE x

Sign(x) == IF x > 0 THEN 1 ELSE IF x < 0 THEN -1 ELSE 0

RECURSIVE GCD(_, _)
GCD(a, b) == IF b = 0 THEN a ELSE GCD(b, a % b)

\* n/d in lowest terms, d >= 0; d = 0 gives +inf, -inf or nan
Norm(n, d) ==
    IF d = 0 THEN [n |-> Sign(n), d |-> 0]
    ELSE LET g == GCD(Abs(n), d) IN [n |-> n \div g, d |-> d \div g]

R(n, d) == Norm(n, d)
I(n) == [n |-> n, d |-> 1]

NaN == [n |-> 0, d |-> 0]
IsFinite(x) == x.d # 0

Neg(x) == [n |-> -x.n, d |-> x.d]

Add(a, b) ==
    IF a.d = 0 /\ b.d = 0 THEN (IF a = b THEN a ELSE NaN)
    ELSE Norm(a.n * b.d + b.n * a.d, a.d * b.d)

Sub(a, b) == Add(a, Neg(b))

Mul(a, b) == Norm(a.n * b.n, a.d * b.d)

\* IEEE division as numpy performs it: x/0 is +-inf or nan, no exception
Div(a, b) ==
    IF b.n < 0 THEN Norm(-(a.n * b.d), a.d * (-b.n))
    ELSE Norm(a.n * b.d, a.d * b.n)

\* a <= b, for finite a and b
Leq(a, b) == a.n * b.d <= b.n * a.d

---------------------------------------------------------------------------
(* Arrays: a 1D array is a sequence, a 2D array a sequence of rows         *)

Shape(a) == <<Len(a), IF Len(a) = 0 THEN 0 ELSE Len(a[1])>>

Map1(F(_), a) == [i \in 1..Len(a) |-> F(a[i])]
Map2(F(_), a) == [i \in 1..Len(a) |-> [j \in 1..Len(a[i]) |-> F(a[i][j])]]

\* a.reshape(n): the elements in row-major order (n = rows * cols)
Reshape(a, n) ==
    LET cols == Shape(a)[2]
    IN [k \in 1..n |-> a[((k - 1) \div cols) + 1][((k - 1) % cols) + 1]]

Elements(a) == {a[i][j] : i \in 1..Len(a), j \in 1..Shape(a)[2]}

\* np.max of a 2D array of finite values
ArrayMax(a) == CHOOSE m \in Elements(a) : \A x \in Elements(a) : Leq(x, m)

\* the arrays an opaque call can return: value a at [0,0], b elsewhere
Pattern(rows, cols, a, b) ==
    [i \in 1..rows |-> [j \in 1..cols |-> IF i = 1 /\ j = 1 THEN a ELSE b]]

---------------------------------------------------------------------------
(* The inputs of a run                                                     *)

Unset == "<unset>"

\* command-line arguments the script could be started with
Argvs == {<<>>, <<"other.npy">>}

\* os.environ: HOME, and one variable the script has no use for
Envs == [HOME : {Unset, "/home/u", "/srv/x"}, DATA : {Unset, "/srv/x"}]

\* the pw_dir entry of the user running the script
PwDir == "/home/u"

\* values of the stored sinogram
DataVals == {I(0), I(1)}

\* The shapes np.load can return and the script gets past line 55 with
Shapes == (1..MaxNan) \X (1..MaxNdetx)

\* SIRT.recon results: the values at [0,0] and elsewhere
SirtPairs == {<<I(2), I(0)>>, <<I(0), I(0)>>, <<I(-1), I(-1)>>,
              <<I(2), I(-1)>>, <<I(1), I(2)>>}

\* parameters TVRDART.joint can estimate
EstGv == {<<I(0), I(1)>>, <<R(1, 10), R(9, 10)>>}
EstK == {<<I(4)>>, <<I(6)>>}

\* values of the continuous image TVRDART.recon returns
RecVals == {R(1, 4), R(3, 4)}

---------------------------------------------------------------------------
(* Constants of the script                                                 *)

offset == R(-893, 100000)
Ngv == 2
lamb == 10
Niter == 50
SirtIter == 50
AngleMin == -50
AngleMax == 50
KInit == 4

DataFile == <<"Documents", "GitHub", "ContributedTools", "nanotube2d.npy">>
OutFile == "TVRDART2Dreconstruction.npy"

StageOrder == <<"load", "offset", "geometry", "sirt", "joint", "recon",
                "rescale", "visualise", "save">>

StageNo(s) == CHOOSE i \in 1..Len(StageOrder) : StageOrder[i] = s

---------------------------------------------------------------------------
(* Pure steps of the script                                                *)

\* Path.home(): os.path.expanduser("~"), HOME if set, else the pw_dir entry
PathHome(e) == IF e.HOME = Unset THEN PwDir ELSE e.HOME

\* a variant that takes the file from the command line when one is given
LoadPathFromArgv(a, e) ==
    IF a # <<>> THEN <<a[1]>> ELSE <<PathHome(e)>> \o DataFile

\* the argument of np.load
LoadPath(a, e) == <<PathHome(e)>> \o DataFile

\* a variant with endpoint=False: the step is delta / num, stop is left out
LinspaceNoEndpoint(start, stop, num) ==
    LET delta == Sub(stop, start)
        y0 == [i \in 1..num |-> I(i - 1)]
        y1 == IF num > 0
              THEN Map1(LAMBDA x : Mul(x, Div(delta, I(num))), y0)
              ELSE Map1(LAMBDA x : Mul(x, delta), y0)
    IN Map1(LAMBDA x : Add(x, start), y1)

\* np.linspace(start, stop, num, True)
Linspace(start, stop, num) ==
    LET div == num - 1
        delta == Sub(stop, start)
        y0 == [i \in 1..num |-> I(i - 1)]
        y1 == IF div > 0
              THEN Map1(LAMBDA x : Mul(x, Div(delta, I(div))), y0)
              ELSE Map1(LAMBDA x : Mul(x, delta), y0)
        y2 == Map1(LAMBDA x : Add(x, start), y1)
    IN IF num > 1 THEN [y2 EXCEPT ![num] = stop] ELSE y2

\* np.linspace(-50, 50, Nan, True) * (np.pi / 180), in units of pi
Angles(n) ==
    Map1(LAMBDA x : Mul(x, R(1, 180)), Linspace(I(AngleMin), I(AngleMax), n))

\* a variant with the sign of the correction flipped: data += offset
OffsetCorrectionAdd(d) == Map2(LAMBDA x : Add(x, offset), d)

\* data -= offset
OffsetCorrection(d) == Map2(LAMBDA x : Sub(x, offset), d)

\* astra.create_proj_geom("parallel", 1.0, Ndetx, angles)
CreateProjGeom(detCount, ang) ==
    [type |-> "parallel", DetectorWidth |-> I(1), DetectorCount |-> detCount,
     ProjectionAngles |-> ang]

\* astra.create_vol_geom(Nz, Nx): rows, columns
CreateVolGeom(rows, cols) == [GridRowCount |-> rows, GridColCount |-> cols]

\* a variant with Nz taken from the other dimension of the sinogram
VolGeomNan(nan, ndetx) ==
    LET Nx == ndetx
        Nz == nan
    IN CreateVolGeom(Nz, Nx)

\* vol_geom as the script builds it: Nx = Ndetx, Nz = Ndetx
VolGeom(nan, ndetx) ==
    LET Nx == ndetx
        Nz == ndetx
    IN CreateVolGeom(Nz, Nx)

\* a variant that deletes the projector as soon as the operator is built
CreateProjectorDeleted(ps, id) == ps \ {id}

\* astra.create_projector("cuda", proj_geom, vol_geom): the live ids after it
CreateProjector(ps, id) == ps \cup {id}

\* astra.OpTomo(proj_id)
OpTomo(id, pg, vg) ==
    [proj_id |-> id,
     vshape |-> <<vg.GridRowCount, vg.GridColCount>>,
     sshape |-> <<Len(pg.ProjectionAngles), pg.DetectorCount>>]

\* x / sf and x * sf on whole arrays
Normalise(a, s) == Map2(LAMBDA x : Div(x, s), a)
Rescale2(a, s) == Map2(LAMBDA x : Mul(x, s), a)
Rescale1(a, s) == Map1(LAMBDA x : Mul(x, s), a)

\* p = data.reshape(Nan * Ndetx)
MeasurementVector(d, nan, ndetx) == Reshape(d, nan * ndetx)

\* TVRDART.gv2param / TVRDART.param2gv
gv2param(g, k) == [gv |-> g, K |-> k]
param2gv(prm) == <<prm.gv, prm.K>>

\* a variant that reconstructs with the initial parameters
ReconParamInitial(p0, pe) == p0

\* the parameter vector handed to TVRDART.recon
ReconParam(p0, pe) == pe

\* a variant that saves the continuous image
SaveArrayContinuous(sirtImg, seg, cont) == cont

\* the array handed to np.save
SaveArray(sirtImg, seg, cont) == seg

\* a variant that rescales the continuous image too
RescaleStageAll(g, rs, seg, cont, s) ==
    [gv |-> Rescale1(g, s), recsirt |-> Rescale2(rs, s),
     Segrec |-> Rescale2(seg, s), rec |-> Rescale2(cont, s)]

\* the arrays multiplied by sf after the final reconstruction
RescaleStage(g, rs, seg, cont, s) ==
    [gv |-> Rescale1(g, s), recsirt |-> Rescale2(rs, s),
     Segrec |-> Rescale2(seg, s), rec |-> cont]

\* a variant in which the figures are never shown
NextPcNoShow(s) ==
    IF s = "rescale" THEN "save"
    ELSE IF StageNo(s) = Len(StageOrder) THEN "done"
    ELSE StageOrder[StageNo(s) + 1]

\* the stage that runs after stage s has returned
NextPc(s) ==
    IF StageNo(s) = Len(StageOrder) THEN "done" ELSE StageOrder[StageNo(s) + 1]

\* a variant that swallows the exception and goes on with the next stage
OnRaiseContinue(s) ==
    IF StageNo(s) = Len(StageOrder) THEN "done" ELSE StageOrder[StageNo(s) + 1]

\* an exception is caught nowhere: the interpreter exits
OnRaise(s) == "failed"

---------------------------------------------------------------------------
(* The run                                                                 *)

NoCall == [args |-> <<>>, ret |-> <<>>]
NoParam == [gv |-> <<>>, K |-> <<>>]
NoGeom == CreateProjGeom(0, <<>>)
NoVol == CreateVolGeom(0, 0)
NoOp == [proj_id |-> 0, vshape |-> <<0, 0>>, sshape |-> <<0, 0>>]
NoFile == [state |-> "absent", content |-> <<>>]

Init ==
    /\ argv \in Argvs
    /\ env \in Envs
    /\ pc = "load"
    /\ trace = <<>>
    /\ failedAt = ""
    /\ path = <<>>
    /\ loaded = <<>>
    /\ data = <<>>
    /\ Nan = 0
    /\ Ndetx = 0
    /\ angles = <<>>
    /\ proj_geom = NoGeom
    /\ vol_geom = NoVol
    /\ projectors = {}
    /\ created = 0
    /\ W = NoOp
    /\ K = <<>>
    /\ sirt_call = NoCall
    /\ sirt_raw = <<>>
    /\ recsirt = <<>>
    /\ sf = NaN
    /\ p = <<>>
    /\ gv = <<>>
    /\ param0 = NoParam
    /\ param_esti = NoParam
    /\ Segrec = <<>>
    /\ rec = <<>>
    /\ joint_call = NoCall
    /\ recon_call = NoCall
    /\ shown = <<>>
    /\ writes = 0
    /\ file = NoFile

\* stage s has returned: the next statement of the script runs
Return(s) ==
    /\ pc' = NextPc(s)
    /\ trace' = Append(trace, s)
    /\ failedAt' = failedAt

\* lines 51-56: np.load, data.shape, the angles
Load ==
    /\ pc = "load"
    /\ path' = LoadPath(argv, env)
    /\ \E sh \in Shapes, a \in DataVals, b \in DataVals :
          /\ loaded' = Pattern(sh[1], sh[2], a, b)
          /\ data' = loaded'
          /\ Nan' = Shape(data')[1]
          /\ Ndetx' = Shape(data')[2]
          /\ angles' = Angles(Nan')
    /\ Return("load")
    /\ UNCHANGED <<argv, env, proj_geom, vol_geom, projectors, created, W, K,
                   sirt_call, sirt_raw, recsirt, sf, p, gv, param0, param_esti,
                   Segrec, rec, joint_call, recon_call, shown, writes, file>>

\* lines 58-61: the intensity-offset correction, in place
Offset ==
    /\ pc = "offset"
    /\ data' = OffsetCorrection(data)
    /\ Return("offset")
    /\ UNCHANGED <<argv, env, path, loaded, Nan, Ndetx, angles, proj_geom,
                   vol_geom, projectors, created, W, K, sirt_call, sirt_raw,
                   recsirt, sf, p, gv, param0, param_esti, Segrec, rec,
                   joint_call, recon_call, shown, writes, file>>

\* lines 63-77: geometry, projector, operator, TVR-DART configuration
Geometry ==
    /\ pc = "geometry"
    /\ proj_geom' = CreateProjGeom(Ndetx, angles)
    /\ vol_geom' = VolGeom(Nan, Ndetx)
    /\ created' = created + 1
    /\ projectors' = CreateProjector(projectors, created')
    /\ W' = OpTomo(created', proj_geom', vol_geom')
    /\ K' = [i \in 1..(Ngv - 1) |-> I(KInit)]
    /\ Return("geometry")
    /\ UNCHANGED <<argv, env, path, loaded, data, Nan, Ndetx, angles, sirt_call,
                   sirt_raw, recsirt, sf, p, gv, param0, param_esti, Segrec, rec,
                   joint_call, recon_call, shown, writes, file>>

\* lines 79-87: SIRT.recon, then the normalisation by its maximum
Sirt ==
    /\ pc = "sirt"
    /\ \E v \in SirtPairs :
          /\ sirt_raw' = Pattern(vol_geom.GridRowCount, vol_geom.GridColCount,
                                 v[1], v[2])
          /\ sirt_call' = [args |-> <<data, SirtIter, proj_geom, vol_geom, "cuda">>,
                           ret |-> <<sirt_raw'>>]
    /\ sf' = ArrayMax(sirt_raw')
    /\ data' = Normalise(data, sf')
    /\ p' = MeasurementVector(data', Nan, Ndetx)
    /\ recsirt' = Normalise(sirt_raw', sf')
    /\ Return("sirt")
    /\ UNCHANGED <<argv, env, path, loaded, Nan, Ndetx, angles, proj_geom,
                   vol_geom, projectors, created, W, K, gv, param0, param_esti,
                   Segrec, rec, joint_call, recon_call, shown, writes, file>>

\* lines 89-94: TVRDART.joint from the initial parameters
Joint ==
    /\ pc = "joint"
    /\ param0' = gv2param(Linspace(I(0), I(1), Ngv), K)
    /\ \E g \in EstGv, k \in EstK :
          /\ param_esti' = gv2param(g, k)
          /\ Segrec' = Pattern(Shape(recsirt)[1], Shape(recsirt)[2], g[2], g[1])
    /\ joint_call' = [args |-> <<W, p, recsirt, param0', lamb>>,
                      ret |-> <<Segrec', param_esti'>>]
    /\ gv' = param2gv(param_esti')[1]
    /\ K' = param2gv(param_esti')[2]
    /\ Return("joint")
    /\ UNCHANGED <<argv, env, path, loaded, data, Nan, Ndetx, angles, proj_geom,
                   vol_geom, projectors, created, W, sirt_call, sirt_raw, recsirt,
                   sf, p, rec, recon_call, shown, writes, file>>

\* lines 96-98: TVRDART.recon
Recon ==
    /\ pc = "recon"
    /\ \E a \in {param_esti.gv[i] : i \in 1..Len(param_esti.gv)}, c \in RecVals :
          /\ Segrec' = Pattern(Shape(recsirt)[1], Shape(recsirt)[2],
                               a, param_esti.gv[1])
          /\ rec' = Pattern(Shape(recsirt)[1], Shape(recsirt)[2], c, I(0))
    /\ recon_call' = [args |-> <<W, p, recsirt, ReconParam(param0, param_esti),
                                 lamb, Niter>>,
                      ret |-> <<Segrec', rec'>>]
    /\ Return("recon")
    /\ UNCHANGED <<argv, env, path, loaded, data, Nan, Ndetx, angles, proj_geom,
                   vol_geom, projectors, created, W, K, sirt_call, sirt_raw,
                   recsirt, sf, p, gv, param0, param_esti, joint_call, shown,
                   writes, file>>

\* lines 99-101: back to the units of the data
Rescale ==
    /\ pc = "rescale"
    /\ LET r == RescaleStage(gv, recsirt, Segrec, rec, sf)
       IN /\ gv' = r.gv
          /\ recsirt' = r.recsirt
          /\ Segrec' = r.Segrec
          /\ rec' = r.rec
    /\ Return("rescale")
    /\ UNCHANGED <<argv, env, path, loaded, data, Nan, Ndetx, angles, proj_geom,
                   vol_geom, projectors, created, W, K, sirt_call, sirt_raw, sf,
                   p, param0, param_esti, joint_call, recon_call, shown, writes,
                   file>>

\* lines 105-118: the two figures, pylab.show
Visualise ==
    /\ pc = "visualise"
    /\ shown' = <<[title |-> "SIRT", image |-> recsirt],
                  [title |-> "TVR-DART", image |-> Segrec]>>
    /\ Return("visualise")
    /\ UNCHANGED <<argv, env, path, loaded, data, Nan, Ndetx, angles, proj_geom,
                   vol_geom, projectors, created, W, K, sirt_call, sirt_raw,
                   recsirt, sf, p, gv, param0, param_esti, Segrec, rec,
                   joint_call, recon_call, writes, file>>

\* lines 120-122: np.save
Save ==
    /\ pc = "save"
    /\ file' = [state |-> "complete", content |-> SaveArray(recsirt, Segrec, rec)]
    /\ writes' = writes + 1
    /\ Return("save")
    /\ UNCHANGED <<argv, env, path, loaded, data, Nan, Ndetx, angles, proj_geom,
                   vol_geom, projectors, created, W, K, sirt_call, sirt_raw,
                   recsirt, sf, p, gv, param0, param_esti, Segrec, rec,
                   joint_call, recon_call, shown>>

\* The stage about to run raises. No statement of the script is in a try
\* block. What a stage did before the call that raised stays done: the
\* geometry stage may have created the projector already, and np.save may
\* have opened (and partly written) the output file.
Raise ==
    /\ pc \in {StageOrder[i] : i \in 1..Len(StageOrder)}
    /\ pc' = OnRaise(pc)
    /\ failedAt' = pc
    /\ trace' = trace
    /\ \/ UNCHANGED <<projectors, created, file>>
       \/ /\ pc = "geometry"
          /\ created' = created + 1
          /\ projectors' = CreateProjector(projectors, created')
          /\ UNCHANGED file
       \/ /\ pc = "save"
          /\ file' = [state |-> "partial", content |-> <<>>]
          /\ UNCHANGED <<projectors, created>>
    /\ UNCHANGED <<argv, env, path, loaded, data, Nan, Ndetx, angles, proj_geom,
                   vol_geom, W, K, sirt_call, sirt_raw, recsirt, sf, p, gv,
                   param0, param_esti, Segrec, rec, joint_call, recon_call,
                   shown, writes>>

Next ==
    \/ Load
    \/ Offset
    \/ Geometry
    \/ Sirt
    \/ Joint
    \/ Recon
    \/ Rescale
    \/ Visualise
    \/ Save
    \/ Raise

Spec == Init /\ [][Next]_vars

---------------------------------------------------------------------------
(* Properties                                                              *)

Prefix(n) == SubSeq(StageOrder, 1, n)
Started == {StageOrder[i] : i \in 1..Len(StageOrder)}
Returned(s) == \E i \in 1..Len(trace) : trace[i] = s

\* C1: the stages that have returned are always an initial part of the fixed
\* order load, offset, geometry, sirt, joint, recon, rescale, visualise, save,
\* the stage about to run is the one after the last that returned, and a run
\* that reaches the end has run each of the nine exactly once (one SIRT call,
\* one joint call, one recon call, one projector, one display, one write).
C1_StagesInOrder ==
    /\ Len(trace) <= Len(StageOrder)
    /\ trace = Prefix(Len(trace))
    /\ pc \in Started => pc = StageOrder[Len(trace) + 1]
    /\ (sirt_call # NoCall) = Returned("sirt")
    /\ (joint_call # NoCall) = Returned("joint")
    /\ (recon_call # NoCall) = Returned("recon")
    /\ (shown # <<>>) = Returned("visualise")
    /\ writes = (IF Returned("save") THEN 1 ELSE 0)
    /\ pc = "done" => /\ trace = StageOrder
                      /\ created = 1
                      /\ failedAt = ""

C1_Witness == pc = "done" /\ Len(trace) = 9 /\ writes = 1 /\ shown # <<>>

\* C2 as stated: after a stage has raised, the run is over, no stage after it
\* has run, and the output file has not been touched.
C2_FailureLeavesNoFile ==
    failedAt # "" =>
        /\ pc = "failed"
        /\ trace = Prefix(StageNo(failedAt) - 1)
        /\ file = NoFile

\* C2, amended: after a stage has raised, the run is over (nothing can run
\* any more, so nothing is retried), the stages that returned are exactly the
\* ones before it, and no complete output file has been written; the file is
\* untouched unless the stage that raised is the save itself.
C2_FailureTerminates ==
    failedAt # "" =>
        /\ pc = "failed"
        /\ ~ENABLED Next
        /\ trace = Prefix(StageNo(failedAt) - 1)
        /\ writes = 0
        /\ file.state # "complete"
        /\ failedAt # "save" => file = NoFile

C2_Witness ==
    /\ pc = "failed"
    /\ failedAt = "recon"
    /\ joint_call # NoCall
    /\ file = NoFile

\* C3: the file is written once, only after recon, rescale and visualise have
\* returned, and it holds the Segrec that TVRDART.recon returned times sf.
C3_SavedIsFinalSegrec ==
    /\ writes <= 1
    /\ file.state = "complete" =>
          /\ writes = 1
          /\ Returned("recon") /\ Returned("rescale") /\ Returned("visualise")
          /\ file.content = Rescale2(recon_call.ret[1], sf)
          /\ shown[2].image = file.content
    /\ pc = "done" => file.state = "complete"

C3_Witness ==
    /\ pc = "done"
    /\ file.state = "complete"
    /\ file.content # Rescale2(joint_call.ret[1], sf)
    /\ file.content # joint_call.ret[1]
    /\ file.content # recon_call.ret[1]
    /\ file.content # rec
    /\ file.content # recsirt
    /\ file.content # sirt_raw

C5_OneProjector ==
    /\ created <= 1
    /\ Cardinality(projectors) <= 1
    /\ created = 1 => projectors = {1}
    /\ Returned("geometry") => created = 1 /\ W.proj_id \in projectors
    /\ joint_call # NoCall => joint_call.args[1].proj_id \in projectors
    /\ recon_call # NoCall => recon_call.args[1].proj_id \in projectors
    /\ pc \in {"done", "failed"} /\ Returned("geometry") => projectors = {1}

C5_Witness == pc = "done" /\ projectors = {1} /\ recon_call.args[1].proj_id = 1

\* C6: for a loaded sinogram of shape (Nan, Ndetx) the projection geometry has
\* Ndetx detector elements and Nan angles, the volume is Ndetx x Ndetx, p has
\* Nan * Ndetx elements at both TVRDART calls, and the images (SIRT, Segrec,
\* the saved array) have the shape of the volume geometry.
C6_Shapes ==
    LET nan == Shape(loaded)[1]
        ndetx == Shape(loaded)[2]
        vshape == <<ndetx, ndetx>>
    IN /\ Returned("load") => Nan = nan /\ Ndetx = ndetx /\ Shape(data) = <<nan, ndetx>>
       /\ Returned("geometry") =>
             /\ proj_geom.DetectorCount = ndetx
             /\ Len(proj_geom.ProjectionAngles) = nan
             /\ vol_geom.GridRowCount = ndetx
             /\ vol_geom.GridColCount = ndetx
             /\ W.vshape = vshape
             /\ W.sshape = <<nan, ndetx>>
       /\ Returned("sirt") => Shape(sirt_raw) = vshape /\ Shape(recsirt) = vshape
       /\ joint_call # NoCall =>
             /\ Len(joint_call.args[2]) = nan * ndetx
             /\ Shape(joint_call.args[3]) = vshape
       /\ recon_call # NoCall =>
             /\ Len(recon_call.args[2]) = nan * ndetx
             /\ Shape(recon_call.args[3]) = vshape
             /\ Shape(Segrec) = vshape
       /\ file.state = "complete" =>
             Shape(file.content) = <<vol_geom.GridRowCount, vol_geom.GridColCount>>

C6_Witness ==
    /\ pc = "done"
    /\ Shape(loaded) = <<3, 2>>
    /\ Shape(file.content) = <<2, 2>>
    /\ Len(p) = 6

\* C7: TVRDART.recon is called with the parameters TVRDART.joint returned, and
\* with the same operator, measurement vector and start image as
\* TVRDART.joint: the normalised data and the normalised SIRT image.
C7_ReconUsesEstimate ==
    recon_call # NoCall =>
        /\ recon_call.args[4] = joint_call.ret[2]
        /\ recon_call.args[1] = joint_call.args[1]
        /\ recon_call.args[2] = joint_call.args[2]
        /\ recon_call.args[3] = joint_call.args[3]
        /\ recon_call.args[3] = Map2(LAMBDA x : Div(x, sf), sirt_raw)
        /\ joint_call.args[4] = [gv |-> <<I(0), I(1)>>, K |-> <<I(4)>>]

C7_Witness ==
    /\ recon_call # NoCall
    /\ joint_call.ret[2] # joint_call.args[4]
    /\ recon_call.args[4] = [gv |-> <<R(1, 10), R(9, 10)>>, K |-> <<I(6)>>]

\* C8: SIRT.recon sees every loaded value plus 0.00893, the measurement
\* vector of both TVRDART calls holds (loaded + 0.00893) / sf in row-major
\* order, and data keeps these values to the end of the run.
C8_OffsetOnce ==
    LET corrected == Map2(LAMBDA x : Add(x, R(893, 100000)), loaded)
        scaled == Map2(LAMBDA x : Div(Add(x, R(893, 100000)), sf), loaded)
        cols == Shape(loaded)[2]
        flat == [k \in 1..(Shape(loaded)[1] * cols) |->
                    scaled[((k - 1) \div cols) + 1][((k - 1) % cols) + 1]]
    IN /\ Returned("offset") /\ ~Returned("sirt") => data = corrected
       /\ sirt_call # NoCall => sirt_call.args[1] = corrected
       /\ Returned("sirt") => data = scaled /\ p = flat
       /\ joint_call # NoCall => joint_call.args[2] = flat
       /\ recon_call # NoCall => recon_call.args[2] = flat

C8_Witness ==
    /\ recon_call # NoCall
    /\ Shape(loaded) = <<2, 2>>
    /\ loaded[1][1] = I(1)
    /\ sf = I(2)
    /\ recon_call.args[2] = <<R(100893, 200000), R(893, 200000),
                              R(893, 200000), R(893, 200000)>>

\* C9 as stated: after the rescale the SIRT image is the one SIRT.recon
\* returned, whatever sf is.
C9_RoundTripAlways ==
    Returned("rescale") => recsirt = sirt_raw

\* C9, amended: sf is the maximum of the SIRT result; for sf > 0 the image
\* handed to TVRDART has maximum 1; for sf # 0 the rescaled, displayed SIRT
\* image is the one SIRT.recon returned; the rescale multiplies gv, recsirt
\* and Segrec by sf and leaves data, p, K and rec as they were.
C9_RoundTrip ==
    /\ Returned("sirt") =>
          /\ sf \in Elements(sirt_raw)
          /\ \A x \in Elements(sirt_raw) : Leq(x, sf)
    /\ joint_call # NoCall /\ sf.n > 0 =>
          /\ I(1) \in Elements(joint_call.args[3])
          /\ \A x \in Elements(joint_call.args[3]) : Leq(x, I(1))
    /\ Returned("rescale") =>
          /\ sf.n # 0 => recsirt = sirt_raw
          /\ recsirt = Map2(LAMBDA x : Mul(Div(x, sf), sf), sirt_raw)
          /\ gv = Map1(LAMBDA x : Mul(x, sf), joint_call.ret[2].gv)
          /\ Segrec = Map2(LAMBDA x : Mul(x, sf), recon_call.ret[1])
          /\ rec = recon_call.ret[2]
          /\ K = joint_call.ret[2].K
          /\ p = recon_call.args[2]
          /\ data = Map2(LAMBDA x : Div(x, sf), sirt_call.args[1])
    /\ Returned("visualise") => shown[1].image = recsirt

C9_Witness ==
    /\ pc = "done"
    /\ sf = I(2)
    /\ sirt_raw = Pattern(2, 2, I(2), I(-1))
    /\ shown[1].image = sirt_raw
    /\ recon_call.args[3] # sirt_raw
    /\ rec # Rescale2(rec, sf)

\* C10: the angle array has Nan entries, the i-th being
\* (-50 + (i - 1) * 100 / (Nan - 1)) degrees in radians: it starts at -50
\* degrees, is evenly spaced and non-decreasing, and for Nan >= 2 ends at +50
\* degrees; for Nan = 1 it is the single angle -50 degrees.
C10_Angles ==
    LET n == Shape(loaded)[1]
    IN Returned("load") =>
          /\ Len(angles) = n
          /\ angles[1] = R(-50, 180)
          /\ n >= 2 => angles[n] = R(50, 180)
          /\ n = 1 => angles = <<R(-50, 180)>>
          /\ \A i \in 1..n :
                n >= 2 => angles[i] = R(-50 * (n - 1) + (i - 1) * 100, 180 * (n - 1))
          /\ \A i \in 1..(n - 1) : Leq(angles[i], angles[i + 1])
          /\ \A i \in 1..(n - 2) :
                Sub(angles[i + 1], angles[i]) = Sub(angles[i + 2], angles[i + 1])
          /\ Returned("geometry") => proj_geom.ProjectionAngles = angles

C10_Witness ==
    /\ Returned("geometry")
    /\ Len(angles) = 3
    /\ angles = <<R(-5, 18), I(0), R(5, 18)>>

====
